---- MODULE Spec2Model ----
(***************************************************************************)
(* Model of ContextOptimizer (src/src/index.ts) and of the session that    *)
(* src/src/cli.ts drives: scanProject builds the catalog `files`,          *)
(* calculateRelevance scores it against a query, getOptimalContext selects *)
(* files under a token budget.                                             *)
(*                                                                         *)
(* Strings are sequences of one-character strings, so that includes(),     *)
(* toLowerCase(), basename(), extname() and the import regular expressions *)
(* are computed and not assumed.  A JavaScript Map is a sequence of        *)
(* records in insertion order.  A relevance score is an IEEE-754 double;   *)
(* it is kept as the pair (t, u): t is the exact value in tenths and u the *)
(* distance, in units in the last place, between the double the code       *)
(* computes and the double nearest to t/10.                                *)
(***************************************************************************)
EXTENDS Integers, Sequences, FiniteSets, TLC

VARIABLES files, tree, nScans, ret

vars == <<files, tree, nScans, ret>>

(***************************************************************************)
(* Strings                                                                 *)
(***************************************************************************)
UpperCase == <<"A","B","C","D","E","F","G","H","I","J","K","L","M","N","O","P","Q","R","S","T","U","V","W","X","Y","Z">>

LowerCase == <<"a","b","c","d","e","f","g","h","i","j","k","l","m","n","o","p","q","r","s","t","u","v","w","x","y","z">>

Digits == <<"0","1","2","3","4","5","6","7","8","9">>

Range(s) == {s[i] : i \in DOMAIN s}

\* the class \w of a JavaScript regular expression
WordChars == Range(UpperCase) \cup Range(LowerCase) \cup Range(Digits) \cup {"_"}

\* the class \s, as far as the modelled texts use it
SpaceChars == {" ", "\n", "\t"}

\* the lower-case letter of each upper-case letter
LowerOf == [c \in Range(UpperCase) |-> LowerCase[CHOOSE i \in DOMAIN UpperCase : UpperCase[i] = c]]

UpperChars == Range(UpperCase)

LowerChar(c) == IF c \in UpperChars THEN LowerOf[c] ELSE c

toLowerCase(s) == IF s = <<>> THEN <<>> ELSE [i \in 1..Len(s) |-> LowerChar(s[i])]

\* sub occurs in s at 1-based position i
OccursAt(s, i, sub) ==
  /\ i >= 1
  /\ i + Len(sub) - 1 <= Len(s)
  /\ \A j \in 1..Len(sub) : s[i + j - 1] = sub[j]

\* String.prototype.includes
includes(s, sub) == \E i \in 1..(Len(s) - Len(sub) + 1) : OccursAt(s, i, sub)

startsWith(s, sub) == OccursAt(s, 1, sub)

MaxOf(S) == CHOOSE x \in S : \A y \in S : y <= x

\* String.prototype.split on a one-character separator
RECURSIVE split(_, _)
split(s, sep) ==
  LET hits == {i \in 1..Len(s) : s[i] = sep}
  IN IF hits = {} THEN <<s>>
     ELSE LET i == CHOOSE h \in hits : \A g \in hits : h <= g
          IN <<SubSeq(s, 1, i - 1)>> \o split(SubSeq(s, i + 1, Len(s)), sep)

\* path.join of two segments, path.sep being "/"
join(a, b) == a \o <<"/">> \o b

\* path.basename: the text after the last separator
basename(p) ==
  LET hits == {i \in 1..Len(p) : p[i] = "/"}
  IN IF hits = {} THEN p ELSE SubSeq(p, MaxOf(hits) + 1, Len(p))

\* path.extname: from the last "." of the base name, unless that is its first character
extname(p) ==
  LET b == basename(p)
      dots == {i \in 2..Len(b) : b[i] = "."}
  IN IF dots = {} THEN <<>> ELSE SubSeq(b, MaxOf(dots), Len(b))

(***************************************************************************)
(* Static tables of ContextOptimizer                                       *)
(***************************************************************************)
IGNORE_PATTERNS ==
  { <<"n","o","d","e","_","m","o","d","u","l","e","s">>, <<".","g","i","t">>, <<"_","_","p","y","c","a","c","h","e","_","_">>, <<".","v","e","n","v">>, <<"v","e","n","v">>, <<"d","i","s","t">>, <<"b","u","i","l","d">>,
    <<".","n","e","x","t">>, <<".","p","y","t","e","s","t","_","c","a","c","h","e">>, <<"c","o","v","e","r","a","g","e">>, <<".","D","S","_","S","t","o","r","e">>, <<"p","a","c","k","a","g","e","-","l","o","c","k",".","j","s","o","n">>,
    <<"y","a","r","n",".","l","o","c","k">>, <<"p","n","p","m","-","l","o","c","k",".","y","a","m","l">> }

IGNORE_EXTENSIONS ==
  { <<".","p","y","c">>, <<".","p","y","o">>, <<".","s","o">>, <<".","d","y","l","i","b">>, <<".","d","l","l">>, <<".","e","x","e">>, <<".","b","i","n">>, <<".","l","o","c","k">> }

CODE_EXTENSIONS ==
  { <<".","p","y">>, <<".","j","s">>, <<".","t","s">>, <<".","j","s","x">>, <<".","t","s","x">>, <<".","j","a","v","a">>, <<".","c","p","p">>, <<".","c">>, <<".","h">>, <<".","h","p","p">>,
    <<".","c","s">>, <<".","g","o">>, <<".","r","s">>, <<".","r","b">>, <<".","p","h","p">>, <<".","s","w","i","f","t">>, <<".","k","t">>, <<".","s","q","l">>, <<".","s","h">>,
    <<".","b","a","s","h">>, <<".","y","a","m","l">>, <<".","y","m","l">>, <<".","j","s","o","n">>, <<".","t","o","m","l">>, <<".","m","d">>, <<".","v","u","e">>, <<".","s","v","e","l","t","e">> }

\* the names /^\.(env|gitignore|eslintrc|prettierrc)/ lets through
DotfileAllowed == { <<".","e","n","v">>, <<".","g","i","t","i","g","n","o","r","e">>, <<".","e","s","l","i","n","t","r","c">>, <<".","p","r","e","t","t","i","e","r","r","c">> }

\* path.resolve(rootPath) of the session
rootPath == <<"/","p">>

shouldIgnore(filePath) ==
  LET parts == split(filePath, "/")
      fileName == basename(filePath)
      ext == toLowerCase(extname(filePath))
  IN \/ \E pattern \in IGNORE_PATTERNS :
          \E k \in DOMAIN parts : parts[k] = pattern \/ includes(parts[k], pattern)
     \/ ext \in IGNORE_EXTENSIONS
     \/ /\ startsWith(fileName, <<".">>)
        /\ ~ \E a \in DotfileAllowed : startsWith(fileName, a)

(***************************************************************************)
(* extractImports: the regular expressions of each language family         *)
(***************************************************************************)
\* pattern elements: a literal text, \s+, one character of a set,
\* the capture group (class)+, and .*
Lit(s) == [k |-> "lit", s |-> s]

Ws == [k |-> "ws"]

OneOf(S) == [k |-> "one", set |-> S]

Cap(cls) == [k |-> "cap", cls |-> cls]

AnyStar == [k |-> "any"]

Quotes == {"'", "\""}

InClass(cls, c) ==
  CASE cls = "dotword" -> c = "." \/ c \in WordChars       \* [.\w]
    [] cls = "colonword" -> c = ":" \/ c \in WordChars     \* [:\w]
    [] cls = "notquote" -> c \notin Quotes                 \* [^'"]
    [] cls = "notclose" -> c \notin {">", "\""}            \* [^>"]
    [] cls = "word" -> c \in WordChars                     \* \w
    [] cls = "space" -> c \in SpaceChars                   \* \s
    [] cls = "any" -> c # "\n"                             \* .

PY_PATTERNS ==
  << <<Lit(<<"f","r","o","m">>), Ws, Cap("dotword"), Ws, Lit(<<"i","m","p","o","r","t">>)>>,
     <<Lit(<<"i","m","p","o","r","t">>), Ws, Cap("dotword")>> >>

JS_PATTERNS ==
  << <<Lit(<<"f","r","o","m">>), Ws, OneOf(Quotes), Cap("notquote"), OneOf(Quotes)>>,
     <<Lit(<<"r","e","q","u","i","r","e","(">>), OneOf(Quotes), Cap("notquote"), OneOf(Quotes), Lit(<<")">>)>>,
     <<Lit(<<"i","m","p","o","r","t">>), Ws, OneOf(Quotes), Cap("notquote"), OneOf(Quotes)>>,
     <<Lit(<<"i","m","p","o","r","t">>), Ws, AnyStar, Ws, Lit(<<"f","r","o","m">>), Ws, OneOf(Quotes),
       Cap("notquote"), OneOf(Quotes)>> >>

JAVA_PATTERNS == << <<Lit(<<"i","m","p","o","r","t">>), Ws, Cap("dotword"), Lit(<<";">>)>> >>

GO_PATTERNS == << <<Lit(<<"i","m","p","o","r","t">>), Ws, OneOf(Quotes), Cap("notquote"), OneOf(Quotes)>> >>

RS_PATTERNS == << <<Lit(<<"u","s","e">>), Ws, Cap("colonword")>> >>

C_PATTERNS ==
  << <<Lit(<<"#","i","n","c","l","u","d","e">>), Ws, OneOf({"<", "\""}), Cap("notclose"), OneOf({">", "\""})>> >>

\* the result of a failed match; a match ends at `next`, the index after it
NoMatch == [next |-> 0, cap |-> <<>>]

\* length of the longest run of characters of class cls in s from index i
RECURSIVE RunLen(_, _, _)
RunLen(cls, s, i) ==
  IF i <= Len(s) /\ InClass(cls, s[i]) THEN 1 + RunLen(cls, s, i + 1) ELSE 0

\* backtracking match of the pattern elements k.. of pat against s at index i
RECURSIVE MatchAt(_, _, _, _, _)
RECURSIVE Greedy(_, _, _, _, _, _, _)
MatchAt(pat, k, s, i, cap) ==
  IF k > Len(pat) THEN [next |-> i, cap |-> cap]
  ELSE LET e == pat[k]
       IN CASE e.k = "lit" ->
                 IF OccursAt(s, i, e.s) THEN MatchAt(pat, k + 1, s, i + Len(e.s), cap)
                 ELSE NoMatch
            [] e.k = "one" ->
                 IF i <= Len(s) /\ s[i] \in e.set THEN MatchAt(pat, k + 1, s, i + 1, cap)
                 ELSE NoMatch
            [] e.k = "ws" -> Greedy(pat, k, s, i, cap, RunLen("space", s, i), 1)
            [] e.k = "cap" -> Greedy(pat, k, s, i, cap, RunLen(e.cls, s, i), 1)
            [] e.k = "any" -> Greedy(pat, k, s, i, cap, RunLen("any", s, i), 0)

\* a greedy quantifier: the longest repetition first, then shorter ones down to min
Greedy(pat, k, s, i, cap, n, min) ==
  IF n < min THEN NoMatch
  ELSE LET c == IF pat[k].k = "cap" THEN SubSeq(s, i, i + n - 1) ELSE cap
           m == MatchAt(pat, k + 1, s, i + n, c)
       IN IF m.next # 0 THEN m ELSE Greedy(pat, k, s, i, cap, n - 1, min)

\* the loop `while ((match = pattern.exec(content)) !== null)` of a /g pattern:
\* the leftmost match from lastIndex on, then again from the end of that match
RECURSIVE ExecAll(_, _, _)
ExecAll(pat, content, lastIndex) ==
  IF lastIndex > Len(content) THEN {}
  ELSE LET m == MatchAt(pat, 1, content, lastIndex, <<>>)
       IN IF m.next = 0 THEN ExecAll(pat, content, lastIndex + 1)
          ELSE (IF m.cap = <<>> THEN {} ELSE {m.cap}) \cup ExecAll(pat, content, m.next)

extractImports(content, extension) ==
  LET patterns ==
        CASE extension = <<".","p","y">> -> PY_PATTERNS
          [] extension \in {<<".","j","s">>, <<".","t","s">>, <<".","j","s","x">>, <<".","t","s","x">>, <<".","v","u","e">>, <<".","s","v","e","l","t","e">>} -> JS_PATTERNS
          [] extension = <<".","j","a","v","a">> -> JAVA_PATTERNS
          [] extension = <<".","g","o">> -> GO_PATTERNS
          [] extension = <<".","r","s">> -> RS_PATTERNS
          [] extension \in {<<".","c","p","p">>, <<".","c">>, <<".","h">>, <<".","h","p","p">>} -> C_PATTERNS
          [] OTHER -> <<>>
  IN UNION {ExecAll(patterns[k], content, 1) : k \in DOMAIN patterns}

(***************************************************************************)
(* The catalog and the scan                                                *)
(***************************************************************************)
\* relevanceScore: 0
Zero == [t |-> 0, u |-> 0]

\* a regular file of the tree: its path relative to rootPath, its text, and
\* whether stat and readFile succeed on it
Entry(p, c) == [path |-> p, content |-> c, readable |-> TRUE]

Unreadable(p, c) == [path |-> p, content |-> c, readable |-> FALSE]

\* Map.prototype.has / get / set on a Map kept as a sequence in insertion order
MapHas(m, key) == \E i \in DOMAIN m : m[i].path = key

MapGet(m, key) == m[CHOOSE i \in DOMAIN m : m[i].path = key]

MapSet(m, key, value) ==
  IF MapHas(m, key)
    THEN [i \in DOMAIN m |-> IF m[i].path = key THEN value ELSE m[i]]
    ELSE Append(m, value)

\* scanDirectory reaches a file only through directories it does not ignore,
\* and skips the file itself when shouldIgnore(fullPath) holds
Walked(relativePath) ==
  LET parts == split(relativePath, "/")
      RECURSIVE Full(_)
      Full(k) == IF k = 0 THEN rootPath ELSE join(Full(k - 1), parts[k])
  IN \A k \in 1..Len(parts) : ~shouldIgnore(Full(k))

\* stats.size of a file of one-byte characters
SizeOf(e) == Len(e.content)

processFile(m, e, maxFileSize) ==
  LET ext == toLowerCase(extname(join(rootPath, e.path)))
  IN IF ext \notin CODE_EXTENSIONS THEN m
     ELSE IF ~e.readable THEN m
     ELSE IF SizeOf(e) > maxFileSize THEN m
     ELSE MapSet(m, e.path,
                 [path |-> e.path,
                  size |-> SizeOf(e),
                  extension |-> ext,
                  imports |-> extractImports(e.content, ext),
                  relevanceScore |-> Zero,
                  content |-> e.content])

\* the walk of scanDirectory over the regular files of the tree, in readdir order
RECURSIVE scanDirectory(_, _, _)
scanDirectory(m, entries, maxFileSize) ==
  IF entries = <<>> THEN m
  ELSE LET e == Head(entries)
           m1 == IF Walked(e.path) THEN processFile(m, e, maxFileSize) ELSE m
       IN scanDirectory(m1, Tail(entries), maxFileSize)

\* scanProject adds to this.files; it does not empty it first
scanProject(m, entries, maxFileSize) == scanDirectory(m, entries, maxFileSize)

(***************************************************************************)
(* Inputs: file trees, queries, context lists, budgets                     *)
(***************************************************************************)
ApiTs == Entry(<<"a","p","i",".","t","s">>, <<"i","m","p","o","r","t"," ","x"," ","f","r","o","m"," ","'","d","b","'">>)

ApiTs2 == Entry(<<"a","p","i",".","t","s">>, <<"i","m","p","o","r","t"," ","'","I","n","d","e","x","'">>)

DbTs == Entry(<<"s","r","c","/","d","b",".","t","s">>, <<"l","e","t"," ","d","b">>)

LibDbTs == Entry(<<"l","i","b","/","d","b",".","t","s">>, <<"l","e","t"," ","d","b">>)

DbTs2 == Entry(<<"s","r","c","/","d","b",".","t","s">>, <<"l","e","t"," ","d","b"," ","="," ","o","p","e","n","(",")">>)

TestDbTs == Entry(<<"t","e","s","t","/","d","b",".","t","s">>, <<>>)

SettingsMd == Entry(<<"d","o","c","s","/","c","o","n","f","i","g","/","s","e","t","t","i","n","g","s",".","m","d">>, <<"d","b"," ","n","o","t","e","s">>)

ConfigJson == Entry(<<"c","o","n","f","i","g",".","j","s","o","n">>, <<"{","}">>)

UpperIndexTs == Entry(<<"I","n","d","e","x",".","t","s">>, <<"r","e","q","u","i","r","e","(","'","a","p","i","'",")">>)

SrcIndexTs == Entry(<<"s","r","c","/","i","n","d","e","x",".","t","s">>, <<"e","x","p","o","r","t"," ","{","}">>)

MainPy == Entry(<<"m","a","i","n",".","p","y">>, <<"f","r","o","m"," ","s","r","c"," ","i","m","p","o","r","t"," ","d","b">>)

PackageJson == Entry(<<"p","a","c","k","a","g","e",".","j","s","o","n">>, <<"{","\"","m","a","i","n","\"",":","\"","d","b","\"","}">>)

SpecYaml == Entry(<<"s","p","e","c","/","a","p","p",".","y","a","m","l">>, <<"d","b",":"," ","1">>)

NotesTxt == Entry(<<"n","o","t","e","s",".","t","x","t">>, <<"d","b">>)

VendoredTs == Entry(<<"n","o","d","e","_","m","o","d","u","l","e","s","/","d","b",".","t","s">>, <<"d","b">>)

HiddenTs == Entry(<<".","h","i","d","d","e","n",".","t","s">>, <<"d","b">>)

LockedTs == Unreadable(<<"l","o","c","k","e","d",".","t","s">>, <<"d","b">>)

TreeEmpty == <<>>

TreeApp == <<ApiTs, DbTs, TestDbTs, SettingsMd, ConfigJson>>

TreeMixed == <<UpperIndexTs, MainPy, DbTs2, ApiTs2, NotesTxt, VendoredTs, HiddenTs, LockedTs>>

TreeEntry == <<PackageJson, SrcIndexTs, SpecYaml, DbTs, LibDbTs>>

TreeSmall == <<ConfigJson, DbTs>>

Trees == {TreeEmpty, TreeApp, TreeMixed, TreeEntry, TreeSmall}

\* the default of scanProject and a ceiling that excludes the longer files
MaxFileSizes == {10, 1000000}

Queries == {<<>>, <<"d","b">>, <<"D","B"," ","C","o","n","f","i","g">>, <<"z","z","z">>}

ContextLists ==
  { <<>>,
    <<<<"a","p","i",".","t","s">>>>,
    <<<<"m","i","s","s","i","n","g",".","t","s">>, <<"a","p","i",".","t","s">>, <<"m","a","i","n",".","p","y">>, <<"a","p","i",".","t","s">>>> }

\* budgets: the default of getOptimalContext and two tight ones
Budgets == {0, 4, 100000}

\* minFiles ranges over 0..MaxMinFiles; the default is 3
MaxMinFiles == 3

\* scanProject is called at most MaxScans times in a session
MaxScans == 2

(***************************************************************************)
(* calculateRelevance                                                      *)
(***************************************************************************)
\* new Set(queryLower.match(/\w+/g) || [])
queryWords(query) ==
  LET queryLower == toLowerCase(query)
      RECURSIVE Runs(_)
      Runs(i) ==
        IF i > Len(queryLower) THEN {}
        ELSE LET n == RunLen("word", queryLower, i)
             IN IF n = 0 THEN Runs(i + 1)
                ELSE {SubSeq(queryLower, i, i + n - 1)} \cup Runs(i + n)
  IN Runs(1)

\* Array.prototype.includes on the contextFiles list
ListHas(list, x) == \E i \in DOMAIN list : list[i] = x

\* a variant of importBoost that adds 8 for every matching import of a seed
RECURSIVE importBoostPerImport(_, _, _, _)
importBoostPerImport(m, relativePath, contextFiles, k) ==
  IF k > Len(contextFiles) THEN 0
  ELSE LET ctxFile == contextFiles[k]
           hits == IF MapHas(m, ctxFile)
                     THEN {imp \in MapGet(m, ctxFile).imports : includes(relativePath, imp)}
                     ELSE {}
       IN 8 * Cardinality(hits) + importBoostPerImport(m, relativePath, contextFiles, k + 1)

\* the loop over contextFiles: +8 for each entry that is a catalog file one of
\* whose imports occurs in relativePath
RECURSIVE importBoost(_, _, _, _)
importBoost(m, relativePath, contextFiles, k) ==
  IF k > Len(contextFiles) THEN 0
  ELSE LET ctxFile == contextFiles[k]
           hit == /\ MapHas(m, ctxFile)
                  /\ \E imp \in MapGet(m, ctxFile).imports : includes(relativePath, imp)
       IN (IF hit THEN 8 ELSE 0) + importBoost(m, relativePath, contextFiles, k + 1)

\* a variant of decayFactor that tests the config rule before the others
decayFactorConfigFirst(fileInfo, pathLower) ==
  IF \/ includes(pathLower, <<"c","o","n","f","i","g">>)
     \/ fileInfo.extension \in {<<".","j","s","o","n">>, <<".","y","a","m","l">>, <<".","y","m","l">>, <<".","t","o","m","l">>} THEN 8
  ELSE IF fileInfo.extension \in {<<".","m","d">>, <<".","t","x","t">>} THEN 5
  ELSE IF includes(pathLower, <<"t","e","s","t">>) \/ includes(pathLower, <<"s","p","e","c">>) THEN 7
  ELSE 10

\* the decay factor in tenths: the first branch of the if / else-if chain that applies
decayFactor(fileInfo, pathLower) ==
  IF fileInfo.extension \in {<<".","m","d">>, <<".","t","x","t">>} THEN 5
  ELSE IF includes(pathLower, <<"t","e","s","t">>) \/ includes(pathLower, <<"s","p","e","c">>) THEN 7
  ELSE IF \/ includes(pathLower, <<"c","o","n","f","i","g">>)
          \/ fileInfo.extension \in {<<".","j","s","o","n">>, <<".","y","a","m","l">>, <<".","y","m","l">>, <<".","t","o","m","l">>} THEN 8
  ELSE 10

\* the names that earn the flat bonus, compared with the lower-cased base name
isEntryPoint(filename) == filename \in {<<"p","a","c","k","a","g","e",".","j","s","o","n">>, <<"m","a","i","n",".","p","y">>, <<"i","n","d","e","x",".","t","s">>}

\* IEEE-754 rounding of n * 0.7 and n * 0.8 for the integers n <= 80: the
\* product is one unit in the last place below (0.7) or above (0.8) the double
\* nearest to the exact value for these n, and is that double otherwise
Below7 ==
  {3, 6, 7, 11, 12, 14, 17, 19, 22, 23, 24, 28, 29, 33, 34, 38, 39, 43, 44, 45,
   46, 48, 51, 53, 56, 58, 61, 63, 66, 68, 71, 73, 76, 78}

Above8 ==
  {3, 6, 7, 12, 14, 17, 19, 23, 24, 28, 29, 33, 34, 38, 39, 41, 46, 48, 51, 53,
   56, 58, 61, 63, 66, 68, 71, 73, 76, 78}

\* the same for (n * 0.7) + 5 and (n * 0.8) + 5
Below7Plus5 ==
  {7, 12, 14, 19, 23, 24, 28, 29, 33, 34, 38, 43, 46, 48, 51, 53, 56, 58, 61, 63,
   66, 68, 71, 73, 76, 78}

Above8Plus5 ==
  {7, 12, 14, 19, 23, 24, 28, 29, 33, 38, 41, 46, 48, 51, 53, 56, 58, 61, 63, 66,
   68, 71, 73, 76}

\* score *= 0.5 | 0.7 | 0.8, or no multiplication (factor 10), on the integer n
decayed(n, factor) ==
  [t |-> n * factor,
   u |-> IF factor = 7 /\ n \in Below7 THEN -1
         ELSE IF factor = 8 /\ n \in Above8 THEN 1 ELSE 0]

\* score += 5 after the decay
plusFive(n, factor) ==
  [t |-> n * factor + 50,
   u |-> IF factor = 7 /\ n \in Below7Plus5 THEN -1
         ELSE IF factor = 8 /\ n \in Above8Plus5 THEN 1 ELSE 0]

\* a variant of scoreSteps that starts from the score the record already has
scoreStepsIncremental(m, fileInfo, words, contextFiles) ==
  LET relativePath == fileInfo.path
      filename == toLowerCase(basename(relativePath))
      pathLower == toLowerCase(relativePath)
      contentLower == toLowerCase(fileInfo.content)
      s0 == fileInfo.relevanceScore.t \div 10
      s1 == s0 + (IF \E word \in words : includes(filename, word) THEN 10 ELSE 0)
      s2 == s1 + Cardinality({word \in words : includes(pathLower, word)}) * 5
      s3 == s2 + Cardinality({word \in words : includes(contentLower, word)}) * 2
      s4 == s3 + (IF ListHas(contextFiles, relativePath) THEN 15 ELSE 0)
      s5 == s4 + importBoost(m, relativePath, contextFiles, 1)
      factor == decayFactor(fileInfo, pathLower)
      s6 == decayed(s5, factor)
      s7 == IF isEntryPoint(filename) THEN plusFive(s5, factor) ELSE s6
  IN [path |-> relativePath, start |-> s0, direct |-> s4, imports |-> s5,
      factor |-> factor, decayed |-> s6, final |-> s7]

\* a variant of scoreSteps that adds the entry-point bonus before the decay
scoreStepsBonusFirst(m, fileInfo, words, contextFiles) ==
  LET relativePath == fileInfo.path
      filename == toLowerCase(basename(relativePath))
      pathLower == toLowerCase(relativePath)
      contentLower == toLowerCase(fileInfo.content)
      s0 == 0
      s1 == s0 + (IF \E word \in words : includes(filename, word) THEN 10 ELSE 0)
      s2 == s1 + Cardinality({word \in words : includes(pathLower, word)}) * 5
      s3 == s2 + Cardinality({word \in words : includes(contentLower, word)}) * 2
      s4 == s3 + (IF ListHas(contextFiles, relativePath) THEN 15 ELSE 0)
      s5 == s4 + importBoost(m, relativePath, contextFiles, 1)
      factor == decayFactor(fileInfo, pathLower)
      s6 == decayed(s5, factor)
      s7 == IF isEntryPoint(filename) THEN decayed(s5 + 5, factor) ELSE s6
  IN [path |-> relativePath, start |-> s0, direct |-> s4, imports |-> s5,
      factor |-> factor, decayed |-> s6, final |-> s7]

\* the values the local variable `score` takes in one iteration of the loop
\* over this.files; the iteration starts from `let score = 0`
scoreSteps(m, fileInfo, words, contextFiles) ==
  LET relativePath == fileInfo.path
      filename == toLowerCase(basename(relativePath))
      pathLower == toLowerCase(relativePath)
      contentLower == toLowerCase(fileInfo.content)
      s0 == 0
      s1 == s0 + (IF \E word \in words : includes(filename, word) THEN 10 ELSE 0)
      s2 == s1 + Cardinality({word \in words : includes(pathLower, word)}) * 5
      s3 == s2 + Cardinality({word \in words : includes(contentLower, word)}) * 2
      s4 == s3 + (IF ListHas(contextFiles, relativePath) THEN 15 ELSE 0)
      s5 == s4 + importBoost(m, relativePath, contextFiles, 1)
      factor == decayFactor(fileInfo, pathLower)
      s6 == decayed(s5, factor)
      s7 == IF isEntryPoint(filename) THEN plusFive(s5, factor) ELSE s6
  IN [path |-> relativePath, start |-> s0, direct |-> s4, imports |-> s5,
      factor |-> factor, decayed |-> s6, final |-> s7]

\* the steps of every iteration, in Map order
relevanceSteps(m, query, contextFiles) ==
  LET words == queryWords(query)
  IN [i \in DOMAIN m |-> scoreSteps(m, m[i], words, contextFiles)]

\* the catalog after the loop: each fileInfo.relevanceScore overwritten
withScores(m, steps) == [i \in DOMAIN m |-> [m[i] EXCEPT !.relevanceScore = steps[i].final]]

\* the catalog after calculateRelevance(query, contextFiles)
calculateRelevance(m, query, contextFiles) ==
  withScores(m, relevanceSteps(m, query, contextFiles))

\* the returned Map path -> score
scoresOf(m) == [i \in DOMAIN m |-> [path |-> m[i].path, score |-> m[i].relevanceScore]]

(***************************************************************************)
(* getOptimalContext                                                       *)
(***************************************************************************)
\* sign of x - y for two scores
Compare(x, y) ==
  IF x.t # y.t THEN (IF x.t > y.t THEN 1 ELSE -1)
  ELSE IF x.u # y.u THEN (IF x.u > y.u THEN 1 ELSE -1)
  ELSE 0

\* the comparator (a, b) => b.relevanceScore - a.relevanceScore
byScoreDesc(a, b) == Compare(b.relevanceScore, a.relevanceScore)

\* a variant of InsertSorted that is not stable: x goes before its ties
InsertSortedUnstable(sorted, x) ==
  LET later == {i \in DOMAIN sorted : byScoreDesc(x, sorted[i]) <= 0}
      at == IF later = {} THEN Len(sorted) + 1
            ELSE CHOOSE i \in later : \A j \in later : i <= j
  IN SubSeq(sorted, 1, at - 1) \o <<x>> \o SubSeq(sorted, at, Len(sorted))

\* Array.prototype.sort, which is stable: x goes before the first element
\* that the comparator puts strictly after it
InsertSorted(sorted, x) ==
  LET later == {i \in DOMAIN sorted : byScoreDesc(x, sorted[i]) < 0}
      at == IF later = {} THEN Len(sorted) + 1
            ELSE CHOOSE i \in later : \A j \in later : i <= j
  IN SubSeq(sorted, 1, at - 1) \o <<x>> \o SubSeq(sorted, at, Len(sorted))

RECURSIVE sortFiles(_)
sortFiles(list) ==
  IF list = <<>> THEN <<>>
  ELSE InsertSorted(sortFiles(SubSeq(list, 1, Len(list) - 1)), list[Len(list)])

\* Math.ceil(fileInfo.content.length / 4)
fileTokens(fileInfo) == (Len(fileInfo.content) + 3) \div 4

\* a variant of selectFrom without the minFiles override of the budget
RECURSIVE selectFromNoFloor(_, _, _, _, _, _)
selectFromNoFloor(sortedFiles, k, selected, totalTokens, maxTokens, minFiles) ==
  IF k > Len(sortedFiles) THEN selected
  ELSE LET fileInfo == sortedFiles[k]
       IN IF fileInfo.relevanceScore = Zero /\ Len(selected) >= minFiles
            THEN selected
          ELSE IF totalTokens + fileTokens(fileInfo) <= maxTokens
            THEN selectFromNoFloor(sortedFiles, k + 1, Append(selected, fileInfo),
                            totalTokens + fileTokens(fileInfo), maxTokens, minFiles)
          ELSE IF FALSE
            THEN selectFromNoFloor(sortedFiles, k + 1, Append(selected, fileInfo),
                            totalTokens + fileTokens(fileInfo), maxTokens, minFiles)
          ELSE selectFromNoFloor(sortedFiles, k + 1, selected, totalTokens, maxTokens, minFiles)

\* a variant of selectFrom that tests the budget before adding the file
RECURSIVE selectFromLateBudget(_, _, _, _, _, _)
selectFromLateBudget(sortedFiles, k, selected, totalTokens, maxTokens, minFiles) ==
  IF k > Len(sortedFiles) THEN selected
  ELSE LET fileInfo == sortedFiles[k]
       IN IF fileInfo.relevanceScore = Zero /\ Len(selected) >= minFiles
            THEN selected
          ELSE IF totalTokens <= maxTokens
            THEN selectFromLateBudget(sortedFiles, k + 1, Append(selected, fileInfo),
                            totalTokens + fileTokens(fileInfo), maxTokens, minFiles)
          ELSE IF Len(selected) < minFiles
            THEN selectFromLateBudget(sortedFiles, k + 1, Append(selected, fileInfo),
                            totalTokens + fileTokens(fileInfo), maxTokens, minFiles)
          ELSE selectFromLateBudget(sortedFiles, k + 1, selected, totalTokens, maxTokens, minFiles)

\* a variant of selectFrom that ends the walk at the first file over the budget
RECURSIVE selectFromStopOnMiss(_, _, _, _, _, _)
selectFromStopOnMiss(sortedFiles, k, selected, totalTokens, maxTokens, minFiles) ==
  IF k > Len(sortedFiles) THEN selected
  ELSE LET fileInfo == sortedFiles[k]
       IN IF fileInfo.relevanceScore = Zero /\ Len(selected) >= minFiles
            THEN selected
          ELSE IF totalTokens + fileTokens(fileInfo) <= maxTokens
            THEN selectFromStopOnMiss(sortedFiles, k + 1, Append(selected, fileInfo),
                            totalTokens + fileTokens(fileInfo), maxTokens, minFiles)
          ELSE IF Len(selected) < minFiles
            THEN selectFromStopOnMiss(sortedFiles, k + 1, Append(selected, fileInfo),
                            totalTokens + fileTokens(fileInfo), maxTokens, minFiles)
          ELSE selected

\* a variant of selectFrom without the zero-score cutoff
RECURSIVE selectFromNoCutoff(_, _, _, _, _, _)
selectFromNoCutoff(sortedFiles, k, selected, totalTokens, maxTokens, minFiles) ==
  IF k > Len(sortedFiles) THEN selected
  ELSE LET fileInfo == sortedFiles[k]
       IN IF FALSE
            THEN selected
          ELSE IF totalTokens + fileTokens(fileInfo) <= maxTokens
            THEN selectFromNoCutoff(sortedFiles, k + 1, Append(selected, fileInfo),
                            totalTokens + fileTokens(fileInfo), maxTokens, minFiles)
          ELSE IF Len(selected) < minFiles
            THEN selectFromNoCutoff(sortedFiles, k + 1, Append(selected, fileInfo),
                            totalTokens + fileTokens(fileInfo), maxTokens, minFiles)
          ELSE selectFromNoCutoff(sortedFiles, k + 1, selected, totalTokens, maxTokens, minFiles)

\* the for loop over sortedFiles from index k on
RECURSIVE selectFrom(_, _, _, _, _, _)
selectFrom(sortedFiles, k, selected, totalTokens, maxTokens, minFiles) ==
  IF k > Len(sortedFiles) THEN selected
  ELSE LET fileInfo == sortedFiles[k]
       IN IF fileInfo.relevanceScore = Zero /\ Len(selected) >= minFiles
            THEN selected
          ELSE IF totalTokens + fileTokens(fileInfo) <= maxTokens
            THEN selectFrom(sortedFiles, k + 1, Append(selected, fileInfo),
                            totalTokens + fileTokens(fileInfo), maxTokens, minFiles)
          ELSE IF Len(selected) < minFiles
            THEN selectFrom(sortedFiles, k + 1, Append(selected, fileInfo),
                            totalTokens + fileTokens(fileInfo), maxTokens, minFiles)
          ELSE selectFrom(sortedFiles, k + 1, selected, totalTokens, maxTokens, minFiles)

(***************************************************************************)
(* The session                                                             *)
(***************************************************************************)
\* what the last call was given and what it computed
NoCall ==
  [op |-> "new", query |-> <<>>, contextFiles |-> <<>>, maxTokens |-> 0,
   minFiles |-> 0, maxFileSize |-> 0, overwrote |-> FALSE, scores |-> <<>>,
   steps |-> <<>>, sortedFiles |-> <<>>, selected |-> <<>>]

Init ==
  /\ files = <<>>
  /\ tree = <<>>
  /\ nScans = 0
  /\ ret = NoCall

\* await optimizer.scanProject(maxFileSize) on the tree as it is now, at most
\* `limit` times in a session
Scan(limit) ==
  /\ nScans < limit
  /\ \E entries \in Trees, maxFileSize \in MaxFileSizes :
       /\ tree' = entries
       /\ files' = scanProject(files, entries, maxFileSize)
       /\ ret' = [NoCall EXCEPT !.op = "scanProject", !.maxFileSize = maxFileSize]
  /\ nScans' = nScans + 1

\* the one scan of a session of cli.ts
FirstScan == Scan(1)

\* a scan of an optimizer that may have scanned before
ScanProject == Scan(MaxScans)

\* the call replaces a non-zero score that an earlier call left by another value
Overwrites(m, steps) ==
  \E i \in DOMAIN m : m[i].relevanceScore # Zero /\ m[i].relevanceScore # steps[i].final

\* optimizer.calculateRelevance(query, contextFiles)
CalculateRelevance ==
  \E query \in Queries, contextFiles \in ContextLists :
    \E steps \in {relevanceSteps(files, query, contextFiles)} :
      /\ files' = withScores(files, steps)
      /\ ret' = [NoCall EXCEPT !.op = "calculateRelevance", !.query = query,
                               !.contextFiles = contextFiles,
                               !.overwrote = Overwrites(files, steps),
                               !.scores = scoresOf(files'),
                               !.steps = steps]
      /\ UNCHANGED <<tree, nScans>>

\* optimizer.getOptimalContext(query, {maxTokens, minFiles, contextFiles})
GetOptimalContext ==
  \E query \in Queries, contextFiles \in ContextLists :
    \E steps \in {relevanceSteps(files, query, contextFiles)} :
      \E sortedFiles \in {sortFiles(withScores(files, steps))} :
        \E maxTokens \in Budgets, minFiles \in 0..MaxMinFiles :
          /\ files' = withScores(files, steps)
          /\ ret' = [NoCall EXCEPT !.op = "getOptimalContext", !.query = query,
                                   !.contextFiles = contextFiles,
                                   !.maxTokens = maxTokens, !.minFiles = minFiles,
                                   !.overwrote = Overwrites(files, steps),
                                   !.scores = scoresOf(files'),
                                   !.steps = steps,
                                   !.sortedFiles = sortedFiles,
                                   !.selected = selectFrom(sortedFiles, 1, <<>>, 0,
                                                           maxTokens, minFiles)]
          /\ UNCHANGED <<tree, nScans>>

\* a session of cli.ts: one scan, then scoring and selection
Next == FirstScan \/ CalculateRelevance \/ GetOptimalContext

Spec == Init /\ [][Next]_vars

\* an optimizer that is scanned again and re-scored
NextRescan == ScanProject \/ CalculateRelevance

SpecRescan == Init /\ [][NextRescan]_vars

(***************************************************************************)
(* Properties                                                              *)
(***************************************************************************)
IsSelect == ret.op = "getOptimalContext"

IsScored == ret.op \in {"calculateRelevance", "getOptimalContext"}

Min(a, b) == IF a <= b THEN a ELSE b

\* the estimated token cost of a file: the least n with 4 * n >= content length
EstCost(f) == CHOOSE n \in 0..Len(f.content) : 4 * n >= Len(f.content) /\ 4 * (n - 1) < Len(f.content)

\* the cost of the first n files of a list
RECURSIVE CostOfFirst(_, _)
CostOfFirst(list, n) == IF n = 0 THEN 0 ELSE CostOfFirst(list, n - 1) + EstCost(list[n])

IsZero(f) == f.relevanceScore = Zero

IsPositive(f) == Compare(f.relevanceScore, Zero) > 0

InList(list, f) == \E i \in DOMAIN list : list[i].path = f.path

\* the files of sortedFiles before position k that were returned
TakenBefore(k) == {j \in 1..(k - 1) : InList(ret.selected, ret.sortedFiles[j])}

RECURSIVE CostOfSet(_)
CostOfSet(S) ==
  IF S = {} THEN 0
  ELSE LET j == CHOOSE x \in S : TRUE
       IN EstCost(ret.sortedFiles[j]) + CostOfSet(S \ {j})

\* the position of a file in the catalog's insertion order
CatalogIndex(f) == CHOOSE i \in DOMAIN files : files[i].path = f.path

\* C1: getOptimalContext returns at least min(minFiles, catalog size) files;
\* when every file scores 0 it returns exactly that many, the first ones of
\* the sorted order; on an empty catalog it returns the empty list.
C1_Floor ==
  IsSelect =>
    LET floor == Min(ret.minFiles, Len(files))
    IN /\ Len(ret.selected) >= floor
       /\ (\A i \in DOMAIN files : IsZero(files[i])) =>
            ret.selected = SubSeq(ret.sortedFiles, 1, floor)
       /\ files = <<>> => ret.selected = <<>>

\* five files that all score 0, minFiles = 3 and a budget of 0: three files returned
C1_Witness ==
  /\ IsSelect
  /\ Len(files) = 5
  /\ \A i \in DOMAIN files : IsZero(files[i])
  /\ ret.minFiles = 3
  /\ ret.maxTokens = 0
  /\ Len(ret.selected) = 3
  /\ CostOfFirst(ret.selected, 3) > 0

\* C2: a returned file at 0-based position i >= minFiles keeps the cumulative
\* cost of positions 0..i within maxTokens; a returned list whose total cost
\* exceeds maxTokens has at most minFiles entries.
C2_Budget ==
  IsSelect =>
    /\ \A i \in DOMAIN ret.selected :
         i - 1 >= ret.minFiles => CostOfFirst(ret.selected, i) <= ret.maxTokens
    /\ CostOfFirst(ret.selected, Len(ret.selected)) > ret.maxTokens =>
         Len(ret.selected) <= ret.minFiles

\* the floor pushed the total over the budget, and a later file was refused
C2_Witness ==
  /\ IsSelect
  /\ ret.minFiles > 0
  /\ Len(ret.selected) = ret.minFiles
  /\ CostOfFirst(ret.selected, Len(ret.selected)) > ret.maxTokens
  /\ \E k \in DOMAIN ret.sortedFiles :
       IsPositive(ret.sortedFiles[k]) /\ ~InList(ret.selected, ret.sortedFiles[k])

\* files selected beyond the floor, all within the budget, while another was refused
C2_WitnessBeyondFloor ==
  /\ IsSelect
  /\ Len(ret.selected) > ret.minFiles
  /\ ret.maxTokens < 100000
  /\ \E k \in DOMAIN ret.sortedFiles :
       IsPositive(ret.sortedFiles[k]) /\ ~InList(ret.selected, ret.sortedFiles[k])

\* the catalog a scan of the tree builds from nothing
FreshCatalog(entries, maxFileSize) == Range(scanDirectory(<<>>, entries, maxFileSize))

\* C3: after scanProject the catalog holds exactly the eligible files of the
\* tree just scanned, with that tree's content and imports and score 0, and
\* no record of a file that only an earlier tree had.
C3_RescanReplaces ==
  ret.op = "scanProject" => Range(files) = FreshCatalog(tree, ret.maxFileSize)

\* what holds of the code: the records of the tree just scanned are all there
C3_RescanAdds ==
  ret.op = "scanProject" => FreshCatalog(tree, ret.maxFileSize) \subseteq Range(files)

\* the catalog with every relevanceScore back at its default
ResetScores(m) == [i \in DOMAIN m |-> [m[i] EXCEPT !.relevanceScore = Zero]]

\* C4: whatever calls came before, the scores on the records, the returned
\* score map and the selected list are those that the last call's query and
\* config give on the same catalog with no score left from any earlier call.
C4_FromScratch ==
  IsScored =>
    LET fresh == calculateRelevance(ResetScores(files), ret.query, ret.contextFiles)
    IN /\ files = fresh
       /\ ret.scores = scoresOf(fresh)
       /\ IsSelect =>
            ret.selected = selectFrom(sortFiles(fresh), 1, <<>>, 0,
                                      ret.maxTokens, ret.minFiles)

\* a call that replaced non-zero scores of an earlier call by different ones
C4_Witness ==
  /\ IsSelect
  /\ ret.overwrote
  /\ Len(ret.selected) >= 2
  /\ \E i \in DOMAIN files : IsPositive(files[i])

\* C5: the returned list is non-increasing in score, and returned files of
\* equal score keep their catalog insertion order.
C5_Order ==
  IsSelect =>
    \A i, j \in DOMAIN ret.selected :
      i < j =>
        LET c == Compare(ret.selected[i].relevanceScore, ret.selected[j].relevanceScore)
        IN /\ c >= 0
           /\ c = 0 => CatalogIndex(ret.selected[i]) < CatalogIndex(ret.selected[j])

\* a returned list with a tie of positive scores and a strict descent
C5_Witness ==
  /\ IsSelect
  /\ \E i, j \in DOMAIN ret.selected :
       /\ i < j
       /\ IsPositive(ret.selected[i])
       /\ ret.selected[i].relevanceScore = ret.selected[j].relevanceScore
  /\ \E i, j \in DOMAIN ret.selected :
       /\ i < j
       /\ Compare(ret.selected[i].relevanceScore, ret.selected[j].relevanceScore) > 0
       /\ CatalogIndex(ret.selected[i]) > CatalogIndex(ret.selected[j])

\* the entries of contextFiles that are catalog files with an import occurring in path p
MatchingSeeds(p) ==
  {k \in DOMAIN ret.contextFiles :
     \E i \in DOMAIN files :
       /\ files[i].path = ret.contextFiles[k]
       /\ \E imp \in files[i].imports : includes(p, imp)}

\* C6: the import loop adds to a file's score 8 times the number of entries of
\* contextFiles that are catalog files with at least one import occurring in
\* the file's path; entries absent from the catalog add nothing.
C6_ImportBoost ==
  IsScored =>
    \A i \in DOMAIN files :
      ret.steps[i].imports - ret.steps[i].direct
        = 8 * Cardinality(MatchingSeeds(files[i].path))

\* contextFiles names an absent path, lists one seed twice and has a seed two
\* of whose imports occur in the same path
C6_Witness ==
  /\ IsScored
  /\ \E k \in DOMAIN ret.contextFiles : ~MapHas(files, ret.contextFiles[k])
  /\ \E i \in DOMAIN files : ret.steps[i].imports - ret.steps[i].direct = 16
  /\ \E i, j \in DOMAIN files :
       /\ ListHas(ret.contextFiles, files[j].path)
       /\ Cardinality({imp \in files[j].imports : includes(files[i].path, imp)}) = 2
       /\ ret.steps[i].imports - ret.steps[i].direct = 8

IsDoc(f) == f.extension \in {<<".","m","d">>, <<".","t","x","t">>}

IsTest(f) == includes(toLowerCase(f.path), <<"t","e","s","t">>) \/ includes(toLowerCase(f.path), <<"s","p","e","c">>)

IsConfig(f) ==
  \/ includes(toLowerCase(f.path), <<"c","o","n","f","i","g">>)
  \/ f.extension \in {<<".","j","s","o","n">>, <<".","y","a","m","l">>, <<".","y","m","l">>, <<".","t","o","m","l">>}

\* C7: one decay factor per file: 0.5 for .md/.txt, else 0.7 for test/spec
\* paths, else 0.8 for config paths and .json/.yaml/.yml/.toml, else 1; the
\* score after the decay is the score before it times that one factor.
C7_Decay ==
  IsScored =>
    \A i \in DOMAIN files :
      LET f == files[i]
          s == ret.steps[i]
      IN /\ IsDoc(f) => s.factor = 5
         /\ ~IsDoc(f) /\ IsTest(f) => s.factor = 7
         /\ ~IsDoc(f) /\ ~IsTest(f) /\ IsConfig(f) => s.factor = 8
         /\ ~IsDoc(f) /\ ~IsTest(f) /\ ~IsConfig(f) => s.factor = 10
         /\ s.decayed.t = s.imports * s.factor
         /\ f.path = <<"d","o","c","s","/","c","o","n","f","i","g","/","s","e","t","t","i","n","g","s",".","m","d">> => s.decayed.t = s.imports * 5

\* docs/config/settings.md with a positive score, halved only
C7_Witness ==
  /\ IsScored
  /\ \E i \in DOMAIN files :
       /\ files[i].path = <<"d","o","c","s","/","c","o","n","f","i","g","/","s","e","t","t","i","n","g","s",".","m","d">>
       /\ ret.steps[i].imports > 0
       /\ ret.steps[i].decayed.t = ret.steps[i].imports * 5
  /\ \E i \in DOMAIN files :
       IsTest(files[i]) /\ ret.steps[i].imports > 0 /\ ret.steps[i].factor = 7

EntryPointNames == {<<"p","a","c","k","a","g","e",".","j","s","o","n">>, <<"m","a","i","n",".","p","y">>, <<"i","n","d","e","x",".","t","s">>}

\* C8 as stated: +5 exactly when the base name is one of the entry-point
\* names as written, added after the decay, the final score being
\* factor * sum + 5 and at least 5; no bonus for any other base name.
C8_EntryPointExact ==
  IsScored =>
    \A i \in DOMAIN files :
      LET s == ret.steps[i]
      IN IF basename(files[i].path) \in EntryPointNames
           THEN s.final.t = s.imports * s.factor + 50 /\ s.final.t >= 50
           ELSE s.final = s.decayed

\* C8 as the code has it: the base name is compared in lower case, so a base
\* name that differs from an entry-point name only in letter case earns the
\* bonus too; the bonus is added after the decay.
C8_EntryPoint ==
  IsScored =>
    \A i \in DOMAIN files :
      LET s == ret.steps[i]
      IN IF toLowerCase(basename(files[i].path)) \in EntryPointNames
           THEN s.final.t = s.imports * s.factor + 50 /\ s.final.t >= 50
           ELSE s.final = s.decayed

\* package.json with a decayed positive score plus the undiscounted 5, next to
\* a file that is no entry point
C8_Witness ==
  /\ IsScored
  /\ \E i \in DOMAIN files :
       /\ files[i].path = <<"p","a","c","k","a","g","e",".","j","s","o","n">>
       /\ ret.steps[i].imports > 0
       /\ ret.steps[i].factor = 8
       /\ ret.steps[i].final.t = ret.steps[i].imports * 8 + 50
  /\ \E i \in DOMAIN files :
       /\ toLowerCase(basename(files[i].path)) \notin EntryPointNames
       /\ ret.steps[i].imports > 0
       /\ ret.steps[i].final = ret.steps[i].decayed

\* C9: a file of positive score is returned exactly when, at its turn in the
\* sorted walk, the cost of the files returned before it plus its own cost is
\* within maxTokens, or fewer than minFiles files were returned before it.
C9_SkipAndContinue ==
  IsSelect =>
    \A k \in DOMAIN ret.sortedFiles :
      IsPositive(ret.sortedFiles[k]) =>
        (InList(ret.selected, ret.sortedFiles[k])
           <=> \/ CostOfSet(TakenBefore(k)) + EstCost(ret.sortedFiles[k]) <= ret.maxTokens
               \/ Cardinality(TakenBefore(k)) < ret.minFiles)

\* a file that fits is returned after a higher-scored file was refused
C9_Witness ==
  /\ IsSelect
  /\ \E j, k \in DOMAIN ret.sortedFiles :
       /\ j < k
       /\ IsPositive(ret.sortedFiles[j])
       /\ Compare(ret.sortedFiles[j].relevanceScore, ret.sortedFiles[k].relevanceScore) > 0
       /\ ~InList(ret.selected, ret.sortedFiles[j])
       /\ IsPositive(ret.sortedFiles[k])
       /\ InList(ret.selected, ret.sortedFiles[k])
       /\ Cardinality(TakenBefore(k)) >= ret.minFiles

\* the positions of the walk where a zero score meets a satisfied floor
CutPoints ==
  {k \in DOMAIN ret.sortedFiles :
     IsZero(ret.sortedFiles[k]) /\ Cardinality(TakenBefore(k)) >= ret.minFiles}

\* C10: no zero-score file is returned at 0-based position >= minFiles; no
\* file is returned from the first cut point on; scores are never negative
\* and every file from the cut point on scores 0, so the cutoff drops no
\* file of positive score.
C10_ZeroCutoff ==
  IsSelect =>
    /\ \A i \in DOMAIN ret.selected : IsZero(ret.selected[i]) => i - 1 < ret.minFiles
    /\ \A k \in DOMAIN ret.sortedFiles : Compare(ret.sortedFiles[k].relevanceScore, Zero) >= 0
    /\ \A c \in CutPoints :
         \A k \in DOMAIN ret.sortedFiles :
           k >= c => IsZero(ret.sortedFiles[k]) /\ ~InList(ret.selected, ret.sortedFiles[k])

\* a zero-score file fills the floor and the next one, which the budget would
\* admit, ends the walk
C10_Witness ==
  /\ IsSelect
  /\ \E i \in DOMAIN ret.selected : IsZero(ret.selected[i])
  /\ \E i \in DOMAIN ret.selected : IsPositive(ret.selected[i])
  /\ \E c \in CutPoints :
       CostOfSet(TakenBefore(c)) + EstCost(ret.sortedFiles[c]) <= ret.maxTokens

====
